---- MODULE Spec2Model ----
(***************************************************************************)
(* Reward shaping and episode randomisation of four Sawyer manipulation    *)
(* tasks: button-press-wall, plate-slide-back-side, reach, window-open.    *)
(*                                                                         *)
(* Numbers.  A length is an integer number of half-millimetres, so 0.05 m  *)
(* is MM(50) = 100.  Coordinates are whole millimetres (even numbers).  A  *)
(* Euclidean norm that is a whole number of millimetres is kept exactly    *)
(* (an even number); any other norm n < d < n+1 mm is the odd number 2n+1. *)
(* Comparing a norm with a whole-millimetre constant therefore has the     *)
(* same outcome as comparing the real numbers.  A score or a reward is a   *)
(* fixed-point number with One standing for 1.0.                           *)
(***************************************************************************)
EXTENDS Integers, Sequences, FiniteSets, TLC

MM(x) == 2 * x
P(x, y, z) == <<MM(x), MM(y), MM(z)>>
One == 1000
Abs(x) == IF x < 0 THEN 0 - x ELSE x
Add(a, b) == <<a[1] + b[1], a[2] + b[2], a[3] + b[3]>>
Sub(a, b) == <<a[1] - b[1], a[2] - b[2], a[3] - b[3]>>
BoolToFloat(b) == IF b THEN One ELSE 0

RECURSIVE SqrtIter(_, _, _)
SqrtIter(s, lo, hi) ==
    IF hi - lo <= 1 THEN lo
    ELSE LET mid == (lo + hi) \div 2
         IN  IF mid * mid <= s THEN SqrtIter(s, mid, hi) ELSE SqrtIter(s, lo, mid)
\* floor of the square root of s, 0 <= s < 4000^2
ISqrt(s) == SqrtIter(s, 0, 4000)

\* np.linalg.norm of a vector of even components, in half-millimetres
NormSq(s4) == LET r == ISqrt(s4) IN IF r * r = s4 THEN 2 * r ELSE 2 * r + 1
Norm(v) == NormSq((v[1] * v[1] + v[2] * v[2] + v[3] * v[3]) \div 4)
Norm2(a, b) == NormSq((a * a + b * b) \div 4)

(***************************************************************************)
(* reward_utils: the shaping functions shared by the four tasks.           *)
(***************************************************************************)
Invalid == 0 - 1
\* tolerance(x, bounds=(lo, hi), margin, sigmoid="long_tail"): 1.0 inside the
\* bounds, a long-tailed decay of the overshoot d = (x - hi) / margin outside,
\* 1 / (1 + 9 d^2), which is 0.1 at d = 1; a margin <= 0 is rejected.
tolerance(x, lo, hi, margin) ==
    IF margin <= 0 \/ lo > hi THEN Invalid
    ELSE IF lo <= x /\ x <= hi THEN One
    ELSE LET e == IF x < lo THEN lo - x ELSE x - hi
         IN  (One * margin * margin) \div (9 * e * e + margin * margin)

\* hamacher_product(a, b) = ab / (a + b - ab), and 0 when the denominator is 0
hamacher_product(a, b) ==
    LET denominator == One * (a + b) - a * b
    IN  IF denominator > 0 THEN (One * a * b) \div denominator ELSE 0

(***************************************************************************)
(* Task configuration (the constructors).                                  *)
(***************************************************************************)
Tasks == {"button", "plate", "reach", "window"}

init_obj_init_pos(t) ==
    CASE t = "button" -> P(0, 900, 115)
      [] t = "plate"  -> P(0 - 250, 600, 20)
      [] t = "reach"  -> P(0, 600, 20)
      [] t = "window" -> P(0 - 100, 785, 160)

hand_init_pos(t) ==
    CASE t = "button" -> P(0, 400, 200)
      [] t = "plate"  -> P(0, 600, 200)
      [] t = "reach"  -> P(0, 600, 200)
      [] t = "window" -> P(0, 400, 200)

\* self.goal; the window task defines none
goal(t) ==
    CASE t = "button" -> P(0, 840, 120)
      [] t = "plate"  -> P(0, 600, 15)
      [] t = "reach"  -> P(0 - 100, 800, 200)
      [] t = "window" -> <<>>

None == <<>>
NoDist == 0 - 1
MaxRejected == 2

VARIABLES
    task,                    \* the task class that was constructed
    task_set,                \* the flag _assert_task_is_set tests
    obj_init_pos,            \* self.obj_init_pos
    _target_pos,             \* self._target_pos
    _obj_to_target_init,     \* button: travel of the button at episode start
    window_handle_pos_init,  \* window: handle position at episode start
    init_tcp,                \* self.init_tcp, written by _reset_hand
    body_pos,                \* model.body_pos of the task's body (box, puck_goal, window)
    qpos,                    \* the joint slots the task writes
    xpos,                    \* simulator data derived from body_pos and qpos at the last recompute
    tcp_center,              \* self.tcp_center
    pc,                      \* "idle", or "sampling" inside reach's resampling loop
    goal_pos,                \* reach's reset_model: the local goal_pos
    rand_vec,                \* the vector the last completed reset_model used
    rejected,                \* reach's reset_model: samples rejected so far, counted up to MaxRejected
    last,                    \* the last evaluate_state call: its arguments and what it read
    again,                   \* the last call repeated the arguments of the call before it
    ret                      \* what the last evaluate_state call returned or raised

vars == <<task, task_set, obj_init_pos, _target_pos, _obj_to_target_init,
          window_handle_pos_init, init_tcp, body_pos, qpos, xpos, tcp_center,
          pc, goal_pos, rand_vec, rejected, last, again, ret>>

episode == <<obj_init_pos, _target_pos, _obj_to_target_init, window_handle_pos_init, init_tcp>>

(***************************************************************************)
(* The simulator.  Kinematic data (site and body positions) are functions  *)
(* of model.body_pos and qpos, and change only when the simulator          *)
(* recomputes them (mj_forward, set_state, a physics step).  Offsets that  *)
(* the scene files fix are taken from the configured defaults: the hole is *)
(* where self.goal lies relative to the default box position, the button   *)
(* top is the offset _get_pos_objects applies, the window handle reaches   *)
(* the target after sliding 0.2.                                           *)
(***************************************************************************)
mj_forward(t, bp, q) ==
    CASE t = "button" -> <<Add(bp, Sub(goal(t), init_obj_init_pos(t))),
                           Add(bp, <<0, q[1] - MM(193), 0>>)>>
      [] t = "window" -> <<Add(bp, <<q[1], 0, 0>>)>>
      [] t = "plate"  -> <<Add(P(0 - 100, 600, 0), <<q[1], q[2], 0>>)>>
      [] t = "reach"  -> <<q>>

\* _get_site_pos("hole"), _get_site_pos("buttonStart")
hole_site == xpos[1]
buttonStart_site == xpos[2]
\* _get_pos_objects() of the window task and get_body_com("obj") of reach: read xpos
_get_pos_objects == xpos[1]

\* _get_state_rand_vec(): a point of the task's _random_reset_space
RandVecs(t) ==
    CASE t = "button" -> {P(0, 900, 115), P(0 - 50, 850, 115), P(50, 880, 115)}
      [] t = "window" -> {P(0 - 100, 785, 160), P(100, 900, 160)}
      [] t = "plate"  -> {P(0 - 250, 600, 0) \o g :
                            g \in {P(0 - 50, 600, 15), P(0, 600, 15), P(150, 600, 15)}}
      [] t = "reach"  -> {o \o g : o \in {P(0, 600, 20), P(0 - 10, 680, 20), P(0, 700, 20)},
                                   g \in {P(0, 800, 50), P(80, 800, 200), P(100, 850, 300)}}

NoObs == [gripper |-> 0, obj |-> <<>>]
NoCall == [called |-> FALSE, obs |-> NoObs, action |-> 0, tcp |-> <<>>, xpos |-> <<>>]
NoInfo == [success |-> 0, near_object |-> 0, grasp_success |-> 0, grasp_reward |-> 0,
           in_place_reward |-> 0, obj_to_target |-> 0, unscaled_reward |-> 0]
NoRet == [status |-> "none", reward |-> 0, info |-> NoInfo]
Raised(e) == [status |-> e, reward |-> 0, info |-> NoInfo]

Init ==
    /\ task \in Tasks
    /\ task_set = FALSE
    /\ obj_init_pos = init_obj_init_pos(task)
    /\ _target_pos = None
    /\ _obj_to_target_init = NoDist
    /\ window_handle_pos_init = None
    /\ init_tcp = None
    /\ body_pos = init_obj_init_pos(task)
    /\ qpos = CASE task = "button" -> <<0>>
                [] task = "window" -> <<0>>
                [] task = "plate"  -> <<0, 0>>
                [] task = "reach"  -> init_obj_init_pos(task)
    /\ xpos = mj_forward(task, body_pos, qpos)
    /\ tcp_center = hand_init_pos(task)
    /\ pc = "idle"
    /\ goal_pos = None
    /\ rand_vec = None
    /\ rejected = 0
    /\ last = NoCall
    /\ again = FALSE
    /\ ret = NoRet

\* _reset_hand(): the hand goes back to hand_init_pos and init_tcp is read there
_reset_hand ==
    /\ tcp_center' = hand_init_pos(task)
    /\ init_tcp' = tcp_center'

\* what every reset_model leaves when it returns
Returned(v) ==
    /\ task_set' = TRUE
    /\ rand_vec' = v
    /\ last' = NoCall
    /\ again' = FALSE
    /\ ret' = NoRet

Button_reset_model(v) ==
    /\ task = "button" /\ pc = "idle"
    /\ _reset_hand
    /\ obj_init_pos' = v
    /\ body_pos' = obj_init_pos'
    /\ qpos' = <<0>>
    /\ xpos' = mj_forward(task, body_pos', qpos')
    /\ _target_pos' = hole_site'
    /\ _obj_to_target_init' = Abs(_target_pos'[2] - buttonStart_site'[2])
    /\ Returned(v)
    /\ UNCHANGED <<task, window_handle_pos_init, pc, goal_pos, rejected>>

Window_reset_model(v) ==
    /\ task = "window" /\ pc = "idle"
    /\ _reset_hand
    /\ obj_init_pos' = v
    /\ _target_pos' = Add(obj_init_pos', P(200, 0, 0))
    /\ body_pos' = obj_init_pos'
    /\ window_handle_pos_init' = _get_pos_objects
    /\ qpos' = <<0>>
    /\ xpos' = mj_forward(task, body_pos', qpos')
    /\ Returned(v)
    /\ UNCHANGED <<task, _obj_to_target_init, pc, goal_pos, rejected>>

Plate_reset_model(v) ==
    /\ task = "plate" /\ pc = "idle"
    /\ _reset_hand
    /\ obj_init_pos' = SubSeq(v, 1, 3)
    /\ _target_pos' = SubSeq(v, 4, 6)
    /\ body_pos' = obj_init_pos'
    /\ qpos' = <<MM(0 - 150), 0>>
    /\ xpos' = mj_forward(task, body_pos', qpos')
    /\ Returned(v)
    /\ UNCHANGED <<task, _obj_to_target_init, window_handle_pos_init, pc, goal_pos, rejected>>

\* fix_extreme_obj_pos(orig_init_pos): diff is zero, the height comes from the body
fix_extreme_obj_pos(orig_init_pos) ==
    <<orig_init_pos[1], orig_init_pos[2], _get_pos_objects[3]>>

\* the loop condition measured over all three coordinates
TooClose_3d == Norm(Sub(SubSeq(goal_pos, 1, 3), _target_pos)) < MM(150)

\* the loop condition with 1.5 for 0.15
TooClose_1500 ==
    Norm2(goal_pos[1] - _target_pos[1], goal_pos[2] - _target_pos[2]) < MM(1500)

\* the loop condition of reach's reset_model
TooClose == Norm2(goal_pos[1] - _target_pos[1], goal_pos[2] - _target_pos[2]) < MM(150)

\* reset_model up to the first test of the loop condition
Reach_reset_begin(v) ==
    /\ task = "reach" /\ pc = "idle"
    /\ _reset_hand
    /\ obj_init_pos' = fix_extreme_obj_pos(init_obj_init_pos(task))
    /\ goal_pos' = v
    /\ _target_pos' = SubSeq(goal_pos', 4, 6)
    /\ pc' = "sampling"
    /\ rejected' = 0
    /\ last' = NoCall
    /\ again' = FALSE
    /\ ret' = NoRet
    /\ UNCHANGED <<task, task_set, _obj_to_target_init, window_handle_pos_init,
                   body_pos, qpos, xpos, rand_vec>>

\* one pass of the loop body
Reach_reset_resample(v) ==
    /\ task = "reach" /\ pc = "sampling"
    /\ TooClose
    /\ goal_pos' = v
    /\ _target_pos' = SubSeq(goal_pos', 4, 6)
    /\ rejected' = IF rejected < MaxRejected THEN rejected + 1 ELSE rejected
    /\ UNCHANGED <<task, task_set, obj_init_pos, _obj_to_target_init, window_handle_pos_init,
                   init_tcp, body_pos, qpos, xpos, tcp_center, pc, rand_vec, last, again, ret>>

\* the loop exit and the rest of reset_model
Reach_reset_finish ==
    /\ task = "reach" /\ pc = "sampling"
    /\ ~TooClose
    /\ _target_pos' = SubSeq(goal_pos, 4, 6)
    /\ obj_init_pos' = SubSeq(goal_pos, 1, 3)
    /\ qpos' = obj_init_pos'
    /\ xpos' = mj_forward(task, body_pos, qpos')
    /\ pc' = "idle"
    /\ goal_pos' = None
    /\ Returned(goal_pos)
    /\ UNCHANGED <<task, _obj_to_target_init, window_handle_pos_init, init_tcp,
                   body_pos, tcp_center, rejected>>

(***************************************************************************)
(* compute_reward of each task.  obs.gripper is obs[3], obs.obj is         *)
(* obs[4:7]; err is set when a tolerance call rejects its margin.          *)
(***************************************************************************)
\* the reward of the far regime (tcp_to_obj > 0.07), obs3 being obs[3]
Button_far_reward(obs3, near_button) ==
    LET tcp_status == (One - obs3) \div 2
    IN  2 * hamacher_product(tcp_status, near_button)

\* the reward of the near regime
Button_near_reward(obs3, button_pressed) ==
    2 * One + 2 * (One + obs3) + (4 * button_pressed * button_pressed) \div One

\* compute_reward with the regimes split by tcp_to_obj >= 0.07
Button_compute_reward_regime_ge(action, obs) ==
    LET obj == obs.obj
        tcp_to_obj == Norm(Sub(obj, tcp_center))
        obj_to_target == Abs(_target_pos[2] - obj[2])
        near_button == tolerance(tcp_to_obj, 0, MM(10), Norm(Sub(obj, init_tcp)))
        button_pressed == tolerance(obj_to_target, 0, MM(5), _obj_to_target_init)
        reward == IF tcp_to_obj >= MM(70)
                  THEN Button_far_reward(obs.gripper, near_button)
                  ELSE Button_near_reward(obs.gripper, button_pressed)
    IN  [err |-> near_button = Invalid \/ button_pressed = Invalid,
         reward |-> reward, tcp_to_obj |-> tcp_to_obj, tcp_open |-> obs.gripper,
         obj_to_target |-> obj_to_target, near_button |-> near_button,
         button_pressed |-> button_pressed]

Button_compute_reward(action, obs) ==
    LET obj == obs.obj
        tcp == tcp_center
        tcp_to_obj == Norm(Sub(obj, tcp))
        tcp_to_obj_init == Norm(Sub(obj, init_tcp))
        obj_to_target == Abs(_target_pos[2] - obj[2])
        near_button == tolerance(tcp_to_obj, 0, MM(10), tcp_to_obj_init)
        button_pressed == tolerance(obj_to_target, 0, MM(5), _obj_to_target_init)
        reward == IF tcp_to_obj > MM(70)
                  THEN Button_far_reward(obs.gripper, near_button)
                  ELSE Button_near_reward(obs.gripper, button_pressed)
    IN  [err |-> near_button = Invalid \/ button_pressed = Invalid,
         reward |-> reward, tcp_to_obj |-> tcp_to_obj, tcp_open |-> obs.gripper,
         obj_to_target |-> obj_to_target, near_button |-> near_button,
         button_pressed |-> button_pressed]

\* compute_reward with the success clamp tested before the contact regime
Plate_compute_reward_clamp_first(actions, obs) ==
    LET _TARGET_RADIUS == MM(50)
        tcp == tcp_center
        obj == obs.obj
        target == _target_pos
        obj_to_target == Norm(Sub(obj, target))
        in_place == tolerance(obj_to_target, 0, _TARGET_RADIUS,
                              Norm(Sub(obj_init_pos, target)) - _TARGET_RADIUS)
        tcp_to_obj == Norm(Sub(tcp, obj))
        object_grasped == tolerance(tcp_to_obj, 0, _TARGET_RADIUS,
                                    Norm(Sub(init_tcp, obj_init_pos)) - _TARGET_RADIUS)
        reward1 == IF obj_to_target < _TARGET_RADIUS THEN 10 * One
                   ELSE (3 * object_grasped) \div 2
        reward == IF tcp[3] <= MM(30) /\ tcp_to_obj < MM(70)
                  THEN 2 * One + 7 * in_place ELSE reward1
    IN  [err |-> in_place = Invalid \/ object_grasped = Invalid,
         reward |-> reward, tcp_to_obj |-> tcp_to_obj, tcp_opened |-> obs.gripper,
         obj_to_target |-> obj_to_target, object_grasped |-> object_grasped,
         in_place |-> in_place]

\* the margin compute_reward passes for in_place: in_place_margin - _TARGET_RADIUS
Plate_in_place_margin(obj_init, target) == Norm(Sub(obj_init, target)) - MM(50)

Plate_compute_reward(actions, obs) ==
    LET _TARGET_RADIUS == MM(50)
        tcp == tcp_center
        obj == obs.obj
        tcp_opened == obs.gripper
        target == _target_pos
        obj_to_target == Norm(Sub(obj, target))
        in_place == tolerance(obj_to_target, 0, _TARGET_RADIUS,
                              Plate_in_place_margin(obj_init_pos, target))
        tcp_to_obj == Norm(Sub(tcp, obj))
        obj_grasped_margin == Norm(Sub(init_tcp, obj_init_pos))
        object_grasped == tolerance(tcp_to_obj, 0, _TARGET_RADIUS,
                                    obj_grasped_margin - _TARGET_RADIUS)
        reward1 == (3 * object_grasped) \div 2
        reward2 == IF tcp[3] <= MM(30) /\ tcp_to_obj < MM(70)
                   THEN 2 * One + 7 * in_place ELSE reward1
        reward == IF obj_to_target < _TARGET_RADIUS THEN 10 * One ELSE reward2
    IN  [err |-> in_place = Invalid \/ object_grasped = Invalid,
         reward |-> reward, tcp_to_obj |-> tcp_to_obj, tcp_opened |-> tcp_opened,
         obj_to_target |-> obj_to_target, object_grasped |-> object_grasped,
         in_place |-> in_place]

\* compute_reward with the margin measured from the object, as plate slide does
Reach_compute_reward_obj_margin(actions, obs) ==
    LET tcp_to_target == Norm(Sub(tcp_center, _target_pos))
        in_place == tolerance(tcp_to_target, 0, MM(50), Norm(Sub(obj_init_pos, _target_pos)))
    IN  [err |-> in_place = Invalid,
         reward |-> 10 * in_place, tcp_to_target |-> tcp_to_target, in_place |-> in_place]

\* the margin compute_reward passes for in_place
Reach_in_place_margin(target) == Norm(Sub(hand_init_pos("reach"), target))

Reach_compute_reward(actions, obs) ==
    LET _TARGET_RADIUS == MM(50)
        tcp == tcp_center
        target == _target_pos
        tcp_to_target == Norm(Sub(tcp, target))
        in_place_margin == Reach_in_place_margin(target)
        in_place == tolerance(tcp_to_target, 0, _TARGET_RADIUS, in_place_margin)
    IN  [err |-> in_place = Invalid,
         reward |-> 10 * in_place, tcp_to_target |-> tcp_to_target, in_place |-> in_place]

\* compute_reward with the handle radius as the upper bound of in_place
Window_compute_reward_handle_radius(actions, obs) ==
    LET TARGET_RADIUS == MM(50)
        handle_radius == MM(20)
        obj == _get_pos_objects
        target == _target_pos
        target_to_obj == Abs(obj[1] - target[1])
        target_to_obj_init == Abs(obj_init_pos[1] - target[1])
        in_place == tolerance(target_to_obj, 0, handle_radius,
                              Abs(target_to_obj_init - TARGET_RADIUS))
        tcp_to_obj == Norm(Sub(obj, tcp_center))
        tcp_to_obj_init == Norm(Sub(window_handle_pos_init, init_tcp))
        reach == tolerance(tcp_to_obj, 0, handle_radius,
                           Abs(tcp_to_obj_init - handle_radius))
    IN  [err |-> in_place = Invalid \/ reach = Invalid,
         reward |-> IF in_place = Invalid \/ reach = Invalid THEN 0
                    ELSE 10 * hamacher_product(reach, in_place),
         tcp_to_obj |-> tcp_to_obj, tcp_opened |-> 0,
         target_to_obj |-> target_to_obj, object_grasped |-> reach,
         in_place |-> in_place]

\* the margin with maxPullDist in the place of TARGET_RADIUS
Window_in_place_margin_pull_dist(obj_init, target) ==
    Abs(Abs(obj_init[1] - target[1]) - MM(200))

\* the margin compute_reward passes for in_place:
\* abs(target_to_obj_init - TARGET_RADIUS)
Window_in_place_margin(obj_init, target) ==
    LET target_to_obj_init == Abs(obj_init[1] - target[1])
    IN  Abs(target_to_obj_init - MM(50))

Window_compute_reward(actions, obs) ==
    LET TARGET_RADIUS == MM(50)
        obj == _get_pos_objects
        tcp == tcp_center
        target == _target_pos
        target_to_obj == Abs(obj[1] - target[1])
        in_place == tolerance(target_to_obj, 0, TARGET_RADIUS,
                              Window_in_place_margin(obj_init_pos, target))
        handle_radius == MM(20)
        tcp_to_obj == Norm(Sub(obj, tcp))
        tcp_to_obj_init == Norm(Sub(window_handle_pos_init, init_tcp))
        reach == tolerance(tcp_to_obj, 0, handle_radius,
                           Abs(tcp_to_obj_init - handle_radius))
        tcp_opened == 0
        object_grasped == reach
    IN  [err |-> in_place = Invalid \/ reach = Invalid,
         reward |-> IF in_place = Invalid \/ reach = Invalid THEN 0
                    ELSE 10 * hamacher_product(reach, in_place),
         tcp_to_obj |-> tcp_to_obj, tcp_opened |-> tcp_opened,
         target_to_obj |-> target_to_obj, object_grasped |-> object_grasped,
         in_place |-> in_place]

(***************************************************************************)
(* evaluate_state of each task.                                            *)
(***************************************************************************)
\* an attribute that no reset_model has written yet cannot be computed with
Unset == _target_pos = None \/ init_tcp = None

\* evaluate_state with grasp_success testing tcp_open >= 0
Button_evaluate_body_grasp_ge(obs, action) ==
    IF Unset THEN Raised("TypeError")
    ELSE LET r == Button_compute_reward(action, obs)
         IN  IF r.err THEN Raised("ValueError")
             ELSE [status |-> "ok", reward |-> r.reward,
                   info |-> [success |-> BoolToFloat(r.obj_to_target <= MM(30)),
                             near_object |-> BoolToFloat(r.tcp_to_obj <= MM(50)),
                             grasp_success |-> BoolToFloat(r.tcp_open >= 0),
                             grasp_reward |-> r.near_button,
                             in_place_reward |-> r.button_pressed,
                             obj_to_target |-> r.obj_to_target,
                             unscaled_reward |-> r.reward]]

Button_evaluate_body(obs, action) ==
    IF Unset THEN Raised("TypeError")
    ELSE LET r == Button_compute_reward(action, obs)
         IN  IF r.err THEN Raised("ValueError")
             ELSE [status |-> "ok", reward |-> r.reward,
                   info |-> [success |-> BoolToFloat(r.obj_to_target <= MM(30)),
                             near_object |-> BoolToFloat(r.tcp_to_obj <= MM(50)),
                             grasp_success |-> BoolToFloat(r.tcp_open > 0),
                             grasp_reward |-> r.near_button,
                             in_place_reward |-> r.button_pressed,
                             obj_to_target |-> r.obj_to_target,
                             unscaled_reward |-> r.reward]]

\* evaluate_state with a strict comparison for success
Plate_evaluate_body_strict(obs, action) ==
    IF Unset THEN Raised("TypeError")
    ELSE LET r == Plate_compute_reward(action, obs)
         IN  IF r.err THEN Raised("ValueError")
             ELSE [status |-> "ok", reward |-> r.reward,
                   info |-> [success |-> BoolToFloat(r.obj_to_target < MM(70)),
                             near_object |-> BoolToFloat(r.tcp_to_obj <= MM(30)),
                             grasp_success |-> 0,
                             grasp_reward |-> r.object_grasped,
                             in_place_reward |-> r.in_place,
                             obj_to_target |-> r.obj_to_target,
                             unscaled_reward |-> r.reward]]

Plate_evaluate_body(obs, action) ==
    IF Unset THEN Raised("TypeError")
    ELSE LET r == Plate_compute_reward(action, obs)
         IN  IF r.err THEN Raised("ValueError")
             ELSE [status |-> "ok", reward |-> r.reward,
                   info |-> [success |-> BoolToFloat(r.obj_to_target <= MM(70)),
                             near_object |-> BoolToFloat(r.tcp_to_obj <= MM(30)),
                             grasp_success |-> 0,
                             grasp_reward |-> r.object_grasped,
                             in_place_reward |-> r.in_place,
                             obj_to_target |-> r.obj_to_target,
                             unscaled_reward |-> r.reward]]

Reach_evaluate_body(obs, action) ==
    IF Unset THEN Raised("TypeError")
    ELSE LET r == Reach_compute_reward(action, obs)
             reach_dist == r.tcp_to_target
         IN  IF r.err THEN Raised("ValueError")
             ELSE [status |-> "ok", reward |-> r.reward,
                   info |-> [success |-> BoolToFloat(reach_dist <= MM(50)),
                             near_object |-> reach_dist,
                             grasp_success |-> One,
                             grasp_reward |-> reach_dist,
                             in_place_reward |-> r.in_place,
                             obj_to_target |-> reach_dist,
                             unscaled_reward |-> r.reward]]

Window_evaluate_body(obs, action) ==
    IF Unset \/ window_handle_pos_init = None THEN Raised("TypeError")
    ELSE LET r == Window_compute_reward(action, obs)
         IN  IF r.err THEN Raised("ValueError")
             ELSE [status |-> "ok", reward |-> r.reward,
                   info |-> [success |-> BoolToFloat(r.target_to_obj <= MM(50)),
                             near_object |-> BoolToFloat(r.tcp_to_obj <= MM(50)),
                             grasp_success |-> One,
                             grasp_reward |-> r.object_grasped,
                             in_place_reward |-> r.in_place,
                             obj_to_target |-> r.target_to_obj,
                             unscaled_reward |-> r.reward]]

\* @_assert_task_is_set: the wrapped method runs only once the task is set
_assert_task_is_set(result) ==
    IF task_set THEN result ELSE Raised("AssertionError")

\* the simulator data a call of evaluate_state reads besides tcp_center: the
\* window task reads the handle position, the others take the object from obs
SimRead == IF task = "window" THEN xpos ELSE <<>>

\* a call of evaluate_state(obs, action) that ends with `result`
Called(obs, action, result) ==
    /\ pc = "idle"
    /\ ret' = result
    /\ last' = [called |-> TRUE, obs |-> obs, action |-> action,
                tcp |-> tcp_center, xpos |-> SimRead]
    /\ again' = (last.called /\ last.obs = obs /\ last.action = action)
    /\ UNCHANGED <<task, task_set, obj_init_pos, _target_pos, _obj_to_target_init,
                   window_handle_pos_init, init_tcp, body_pos, qpos, xpos, tcp_center,
                   pc, goal_pos, rand_vec, rejected>>

\* evaluate_state without the decorator
Button_evaluate_state_undecorated(obs, action) ==
    task = "button" /\ Called(obs, action, Button_evaluate_body(obs, action))

\* evaluate_state that takes the current button travel as the new baseline
Button_evaluate_state_rebaseline(obs, action) ==
    /\ task = "button" /\ pc = "idle"
    /\ ret' = _assert_task_is_set(Button_evaluate_body(obs, action))
    /\ last' = [called |-> TRUE, obs |-> obs, action |-> action,
                tcp |-> tcp_center, xpos |-> SimRead]
    /\ again' = (last.called /\ last.obs = obs /\ last.action = action)
    /\ _obj_to_target_init' = IF task_set THEN Abs(_target_pos[2] - obs.obj[2])
                               ELSE _obj_to_target_init
    /\ UNCHANGED <<task, task_set, obj_init_pos, _target_pos,
                   window_handle_pos_init, init_tcp, body_pos, qpos, xpos, tcp_center,
                   pc, goal_pos, rand_vec, rejected>>

Button_evaluate_state(obs, action) ==
    task = "button" /\ Called(obs, action, _assert_task_is_set(Button_evaluate_body(obs, action)))

Plate_evaluate_state(obs, action) ==
    task = "plate" /\ Called(obs, action, _assert_task_is_set(Plate_evaluate_body(obs, action)))

Reach_evaluate_state(obs, action) ==
    task = "reach" /\ Called(obs, action, _assert_task_is_set(Reach_evaluate_body(obs, action)))

Window_evaluate_state(obs, action) ==
    task = "window" /\ Called(obs, action, _assert_task_is_set(Window_evaluate_body(obs, action)))

(***************************************************************************)
(* Inputs.  Positions are given relative to the episode's target so that   *)
(* every threshold is met from both sides and on its boundary.             *)
(***************************************************************************)
Anchor ==
    IF _target_pos # None THEN _target_pos
    ELSE IF task = "window" THEN Add(body_pos, P(200, 0, 0)) ELSE goal(task)

ObjOffsets(t) ==
    CASE t = "button" -> {P(0, 0 - 133, 0 - 5), P(0, 0 - 31, 0 - 5), P(0, 0 - 30, 0 - 5),
                          P(0, 0, 0 - 5)}
      [] t = "plate"  -> {P(0, 0, 0), P(40, 20, 0), P(30, 40, 0), P(42, 56, 0), P(50, 50, 0),
                          P(0 - 200, 0, 0 - 15)}
      [] t = "reach"  -> {P(0, 0, 0), P(10, 20, 30)}
      [] t = "window" -> {P(0, 0, 0), P(10, 20, 30)}

Grippers(t) == IF t = "button" THEN {0, One \div 2, One} ELSE {One}

Observations(t) == {[gripper |-> g, obj |-> Add(Anchor, d)] :
                       g \in Grippers(t), d \in ObjOffsets(t)}

Actions == {0, 1}

TcpOffsets(t) ==
    CASE t = "button" -> {P(0, 0 - 133, 0 - 5), P(30, 0 - 93, 0 - 5), P(42, 0 - 77, 0 - 5),
                          P(50, 0 - 83, 0 - 5)}
      [] t = "plate"  -> {P(0 - 20, 0, 15), P(0 - 20, 0, 16), P(0 - 200, 0, 15)}
      [] t = "reach"  -> {P(0, 0, 0), P(30, 40, 0), P(30, 41, 0), P(0, 0 - 100, 0)}
      [] t = "window" -> {P(0 - 50, 0, 20), P(0, 0, 0)}

TcpPositions(t) == {hand_init_pos(t)} \cup {Add(Anchor, d) : d \in TcpOffsets(t)}

JointPositions(t) ==
    CASE t = "button" -> {<<0>>, <<MM(103)>>}
      [] t = "window" -> {<<0>>, <<MM(149)>>, <<MM(150)>>, <<MM(200)>>}
      [] t = "plate"  -> {<<MM(0 - 150), 0>>, <<MM(50), 0>>}
      [] t = "reach"  -> {qpos}

\* a step of the environment: the simulator moves the hand and the object's
\* joints and recomputes its kinematic data
Step(tcp, q) ==
    /\ pc = "idle"
    /\ tcp_center' = tcp
    /\ qpos' = q
    /\ xpos' = mj_forward(task, body_pos, qpos')
    /\ UNCHANGED <<task, task_set, obj_init_pos, _target_pos, _obj_to_target_init,
                   window_handle_pos_init, init_tcp, body_pos, pc, goal_pos, rand_vec,
                   rejected, last, again, ret>>

Next ==
    \/ \E v \in RandVecs("button") : Button_reset_model(v)
    \/ \E v \in RandVecs("window") : Window_reset_model(v)
    \/ \E v \in RandVecs("plate") : Plate_reset_model(v)
    \/ \E v \in RandVecs("reach") : Reach_reset_begin(v)
    \/ \E v \in RandVecs("reach") : Reach_reset_resample(v)
    \/ Reach_reset_finish
    \/ \E obs \in Observations("button"), a \in Actions : Button_evaluate_state(obs, a)
    \/ \E obs \in Observations("plate"), a \in Actions : Plate_evaluate_state(obs, a)
    \/ \E obs \in Observations("reach"), a \in Actions : Reach_evaluate_state(obs, a)
    \/ \E obs \in Observations("window"), a \in Actions : Window_evaluate_state(obs, a)
    \/ \E tcp \in TcpPositions(task), q \in JointPositions(task) : Step(tcp, q)

Spec == Init /\ [][Next]_vars

(***************************************************************************)
(* The reach task alone, for termination of its resampling loop.  The loop *)
(* keeps running (ReachLoopSpec); ReachFairSpec adds the assumption that   *)
(* the sampler, asked again and again, eventually draws a vector the loop  *)
(* accepts.                                                                *)
(***************************************************************************)
ReachInit == Init /\ task = "reach"

ReachNext ==
    \/ \E v \in RandVecs("reach") : Reach_reset_begin(v)
    \/ \E v \in RandVecs("reach") : Reach_reset_resample(v)
    \/ Reach_reset_finish
    \/ \E obs \in Observations("reach"), a \in Actions : Reach_evaluate_state(obs, a)
    \/ \E tcp \in TcpPositions("reach"), q \in JointPositions("reach") : Step(tcp, q)

\* a pass of the loop that draws a vector the loop condition accepts
AcceptedDraw == \E v \in RandVecs("reach") : Reach_reset_resample(v) /\ ~TooClose'

ReachLoopSpec ==
    /\ ReachInit /\ [][ReachNext]_vars
    /\ WF_vars(\E v \in RandVecs("reach") : Reach_reset_resample(v))
    /\ WF_vars(Reach_reset_finish)

ReachFairSpec == ReachLoopSpec /\ SF_vars(AcceptedDraw)

(***************************************************************************)
(* Properties.                                                             *)
(***************************************************************************)
\* the object-to-target metric of the last evaluate_state call, computed from
\* what the call was given and what the simulator held
Metric ==
    CASE task = "button" -> Abs(_target_pos[2] - last.obs.obj[2])
      [] task = "plate"  -> Norm(Sub(last.obs.obj, _target_pos))
      [] task = "reach"  -> Norm(Sub(last.tcp, _target_pos))
      [] task = "window" -> Abs(last.xpos[1][1] - _target_pos[1])

SuccessThreshold ==
    CASE task = "button" -> MM(30)
      [] task = "plate"  -> MM(70)
      [] task = "reach"  -> MM(50)
      [] task = "window" -> MM(50)

\* C1: while no reset_model has run (the task is not set), evaluate_state of
\* every task ends in the precondition error: it returns no (reward, info) pair
\* and the episode state is still the one the constructor left.
C1_UnsetRaises ==
    (~task_set /\ pc = "idle") =>
        /\ ret.status # "ok"
        /\ last.called => ret.status = "AssertionError"
        /\ obj_init_pos = init_obj_init_pos(task)
        /\ _target_pos = None
        /\ _obj_to_target_init = NoDist
        /\ window_handle_pos_init = None
        /\ init_tcp = None

C1_Witness == ~task_set /\ last.called /\ ret.status = "AssertionError"

\* C2: info['success'] is 1.0 exactly when the task's object-to-target metric
\* is at most the task's threshold, boundary included, and 0.0 otherwise.
C2_SuccessIffWithinThreshold ==
    ret.status = "ok" =>
        /\ ret.info.obj_to_target = Metric
        /\ ret.info.success = BoolToFloat(Metric <= SuccessThreshold)

C2_Witness ==
    /\ task = "plate" /\ ret.status = "ok"
    /\ Metric = MM(70)
    /\ ret.info.success = One

\* C3: plate slide: the reward is exactly 10.0 whenever obj_to_target < 0.05,
\* whatever the gripper height, the gripper-to-object distance and the shaping
\* terms are.
C3_PlateClamp ==
    (task = "plate" /\ ret.status = "ok" /\ Metric < MM(50)) => ret.reward = 10 * One

C3_Witness ==
    /\ task = "plate" /\ ret.status = "ok"
    /\ Metric < MM(50)
    /\ last.tcp[3] <= MM(30)
    /\ Norm(Sub(last.tcp, last.obs.obj)) < MM(70)
    /\ ret.info.grasp_reward < One
    /\ ret.reward = 10 * One

\* C4: when reach's reset_model has returned, obj_init_pos and _target_pos are
\* the two halves of one sample, the last one drawn, and their first two
\* coordinates are at least 0.15 apart, however many samples were rejected.
C4_ReachSeparation ==
    (task = "reach" /\ task_set /\ pc = "idle") =>
        /\ obj_init_pos \o _target_pos = rand_vec
        /\ rand_vec \in RandVecs("reach")
        /\ Norm2(obj_init_pos[1] - _target_pos[1], obj_init_pos[2] - _target_pos[2])
             >= MM(150)

C4_Witness ==
    /\ task = "reach" /\ task_set /\ pc = "idle"
    /\ rejected >= 2
    /\ Norm2(obj_init_pos[1] - _target_pos[1], obj_init_pos[2] - _target_pos[2]) = MM(150)

\* C5: when reset_model has returned, every baseline compute_reward reads was
\* computed from this episode's sample and the simulator state recomputed after
\* the new placement was written; none holds a value of an earlier configuration.
C5_BaselinesFromThisEpisode ==
    (task_set /\ pc = "idle") =>
        CASE task = "button" ->
               /\ obj_init_pos = rand_vec
               /\ _target_pos = mj_forward(task, rand_vec, <<0>>)[1]
               /\ _obj_to_target_init =
                    Abs(mj_forward(task, rand_vec, <<0>>)[1][2]
                        - mj_forward(task, rand_vec, <<0>>)[2][2])
          [] task = "window" ->
               /\ obj_init_pos = rand_vec
               /\ _target_pos = Add(rand_vec, P(200, 0, 0))
               /\ window_handle_pos_init = mj_forward(task, rand_vec, <<0>>)[1]
          [] task = "plate" -> obj_init_pos \o _target_pos = rand_vec
          [] task = "reach" -> obj_init_pos \o _target_pos = rand_vec

C7_WindowInPlace ==
    (task = "window" /\ task_set /\ last.called) =>
        /\ ret.status = "ok"
        /\ Metric <= MM(50) =>
             (ret.info.in_place_reward = One /\ ret.info.success = One)

C7_Witness ==
    /\ task = "window" /\ ret.status = "ok"
    /\ Metric = 0
    /\ ret.info.in_place_reward = One /\ ret.info.success = One

\* C8 as claimed: button press: info['grasp_success'] is 1.0 in every step,
\* whatever the gripper opening obs[3] is.
C8_GraspAlwaysActive ==
    (task = "button" /\ ret.status = "ok") => ret.info.grasp_success = One

\* C8: button press: info['grasp_success'] is 1.0 exactly when the gripper
\* opening obs[3] is greater than 0, and 0.0 otherwise.
C8_GraspIffGripperOpen ==
    (task = "button" /\ ret.status = "ok") =>
        ret.info.grasp_success = BoolToFloat(last.obs.gripper > 0)

C8_Witness ==
    /\ task = "button" /\ ret.status = "ok"
    /\ last.obs.gripper = 0
    /\ ret.info.grasp_success = 0

\* C10: reach: the reward is 10 * in_place, in_place being the tolerance score,
\* bounds [0, 0.05] and margin |hand_init_pos - target|, of the distance from
\* the gripper to the target; neither the action nor obs enters.
C10_ReachReward ==
    (task = "reach" /\ ret.status = "ok") =>
        LET in_place == tolerance(Norm(Sub(last.tcp, _target_pos)), 0, MM(50),
                                  Norm(Sub(hand_init_pos(task), _target_pos)))
        IN  /\ ret.info.in_place_reward = in_place
            /\ ret.reward = 10 * in_place

C10_Witness ==
    /\ task = "reach" /\ ret.status = "ok"
    /\ Metric > MM(50)
    /\ ret.reward > 0 /\ ret.reward < 10 * One
    /\ last.action = 1

\* C9: reach's reset_model has no cap on resampling; when the sampler
\* eventually draws a vector whose object and goal are at least 0.15 apart in
\* their first two coordinates, reset_model eventually returns.
C9_ResetReturns == (pc = "sampling") ~> (pc = "idle" /\ task_set)

\* the same under ReachLoopSpec, where the sampler may repeat a rejected vector
\* for ever: reset_model then need not return
C9_ReturnsWithoutSamplerFairness == (pc = "sampling") ~> (pc = "idle")

C9_Witness == pc = "sampling" /\ rejected = MaxRejected /\ TooClose

\* gripper openings and shaping scores over [0, 1], in steps of ScoreStep / One
ScoreStep == 50
Scores == {ScoreStep * i : i \in 0 .. (One \div ScoreStep)} \cup {One}

\* C11 (the regimes over all of [0, 1]): for every gripper opening and every
\* pair of shaping scores, the far reward is at most 2 and the near reward is
\* at least 4 and at most 10, hence larger than every far reward.
C11_RegimeRanges ==
    \A obs3 \in Scores, near_button \in Scores, button_pressed \in Scores :
        /\ Button_far_reward(obs3, near_button) >= 0
        /\ Button_far_reward(obs3, near_button) <= 2 * One
        /\ Button_near_reward(obs3, button_pressed) >= 4 * One
        /\ Button_near_reward(obs3, button_pressed) <= 10 * One

\* C11: button press: with tcp_to_obj > 0.07 the reward is
\* 2 * hamacher_product((1 - obs[3]) / 2, near_button), otherwise it is
\* 2 + 2 * (1 + obs[3]) + 4 * button_pressed^2; every near reward lies in
\* [4, 10] and every far reward in [0, 2].
C11_ButtonStagedReward ==
    /\ C11_RegimeRanges
    /\ (task = "button" /\ ret.status = "ok") =>
         LET tcp_to_obj == Norm(Sub(last.obs.obj, last.tcp))
             obs3 == last.obs.gripper
         IN  IF tcp_to_obj > MM(70)
             THEN /\ ret.reward = 2 * hamacher_product((One - obs3) \div 2,
                                                       ret.info.grasp_reward)
                  /\ ret.reward <= 2 * One
             ELSE /\ ret.reward = 2 * One + 2 * (One + obs3)
                        + (4 * ret.info.in_place_reward * ret.info.in_place_reward) \div One
                  /\ ret.reward >= 4 * One /\ ret.reward <= 10 * One

C11_Witness ==
    /\ task = "button" /\ ret.status = "ok"
    /\ Norm(Sub(last.obs.obj, last.tcp)) = MM(70)
    /\ last.obs.gripper = 0
    /\ ret.info.in_place_reward < One
    /\ ret.reward >= 4 * One

\* the sampling boxes of the constructors (_random_reset_space), on a grid of
\* GridStep millimetres that keeps both ends of every interval
GridStep == 50
Range(lo, hi) == {lo + GridStep * i : i \in 0 .. ((hi - lo) \div GridStep)} \cup {hi}
PlateObjs == {P(0 - 250, 600, 0)}
PlateGoals == {P(x, 600, 15) : x \in Range(0 - 50, 150)}
ReachGoals == {P(x, y, z) : x \in Range(0 - 100, 100), y \in Range(800, 900),
                            z \in Range(50, 300)}
WindowObjs == {P(x, y, 160) : x \in Range(0 - 100, 100), y \in Range(700, 900)}

\* C12 (over the sampling boxes): for every object and goal that reset_model
\* can draw, the in_place margin is strictly positive.
C12_MarginsOverBoxes ==
    /\ \A o \in PlateObjs, g \in PlateGoals : Plate_in_place_margin(o, g) > 0
    /\ \A g \in ReachGoals : Reach_in_place_margin(g) > 0
    /\ \A o \in WindowObjs : Window_in_place_margin(o, Add(o, P(200, 0, 0))) > 0

\* C12: in every episode started by reset_model of plate slide, reach and
\* window open, the in_place margin compute_reward passes to tolerance is
\* strictly positive, and no evaluate_state call is rejected for its margin.
C12_MarginsPositive ==
    /\ C12_MarginsOverBoxes
    /\ (task_set /\ pc = "idle" /\ task # "button") =>
         /\ CASE task = "plate"  -> Plate_in_place_margin(obj_init_pos, _target_pos) > 0
              [] task = "reach"  -> Reach_in_place_margin(_target_pos) > 0
              [] task = "window" -> Window_in_place_margin(obj_init_pos, _target_pos) > 0
         /\ last.called => ret.status = "ok"

C12_Witness ==
    /\ task = "window" /\ task_set /\ ret.status = "ok"
    /\ Metric > MM(50)
    /\ ret.info.in_place_reward > 0 /\ ret.info.in_place_reward < One
====
